---- MODULE Spec2Model ----
(***************************************************************************)
(* Model of SubjectBuffer (src/src/lib.rs): a streaming window over an     *)
(* input source that keeps max_lookbehind bytes of context before the      *)
(* match position, grows when nothing can be discarded and shifts          *)
(* otherwise.                                                              *)
(*                                                                         *)
(* Rust slices are 0-based; the sequences here are 1-based, so window      *)
(* index i is buffer[i + 1] and source position j is input_source[j + 1].  *)
(***************************************************************************)
EXTENDS Integers, Sequences, FiniteSets, TLC

\* ---- bounds of the explored configurations and inputs ----
MaxMinCapacity == 3
MaxMaxCapacity == 4
MaxSourceLen == 2

\* u8 values: read never inspects a byte, so the padding value 0 and one
\* other value stand for all of them
Byte == 0..1

Min(a, b) == IF a <= b THEN a ELSE b

Max(a, b) == IF a >= b THEN a ELSE b

\* every input the source can hold: byte strings of length <= MaxSourceLen
Sources == UNION {[1..k -> Byte] : k \in 0..MaxSourceLen}

VARIABLES
    buffer,         \* Box<[u8]>; its length is the capacity
    min_capacity,
    max_capacity,
    max_lookbehind,
    len,            \* number of valid bytes in buffer
    match_offset,   \* stored match position
    source_offset,  \* i128: source position of window index 0
    input_source,   \* the whole content of the input source
    input_pos,      \* number of bytes the source has handed out so far
    result,         \* what the last read call returned
    branch,         \* which branch the last read call took
    read_ret,       \* bytes the source returned to the last read call
    tail_space,     \* size of the destination slice given to the source
    had_ok_read,    \* TRUE once some read call has returned Ok
    query,          \* the last accessor call and what it returned
    loop            \* the read loop's count of read calls, and whether
                    \* every call after the first had cursor = len

config == <<min_capacity, max_capacity, max_lookbehind>>

window == <<buffer, len, match_offset, source_offset>>

source == <<input_source, input_pos>>

outcome == <<result, branch, read_ret, tail_space, had_ok_read>>

vars == <<config, window, source, outcome, query, loop>>

NoLoop == [calls |-> 0, at_len |-> TRUE]

NoQuery == [op |-> "none", arg |-> 0, ret |-> 0]

\* ---- SubjectBuffer::new ----

\* new_accepts that also wants max_capacity to reach min_capacity
new_accepts_checks_max(minc, maxc, lb) ==
    ~(minc = 0) /\ ~(minc <= lb) /\ ~(maxc < minc)

\* new returns Ok exactly when neither early return is taken
new_accepts(minc, maxc, lb) == ~(minc = 0) /\ ~(minc <= lb)

\* new with the match position left at the start of the padding
new_match_offset_zero(minc, maxc, lb) ==
    /\ new_accepts(minc, maxc, lb)
    /\ buffer = [i \in 1..lb |-> 0]
    /\ min_capacity = minc
    /\ max_capacity = maxc
    /\ max_lookbehind = lb
    /\ len = lb
    /\ match_offset = 0
    /\ source_offset = -lb

\* new with source_offset starting at the first source byte
new_source_offset_zero(minc, maxc, lb) ==
    /\ new_accepts(minc, maxc, lb)
    /\ buffer = [i \in 1..lb |-> 0]
    /\ min_capacity = minc
    /\ max_capacity = maxc
    /\ max_lookbehind = lb
    /\ len = lb
    /\ match_offset = lb
    /\ source_offset = 0

new(minc, maxc, lb) ==
    /\ new_accepts(minc, maxc, lb)
    /\ buffer = [i \in 1..lb |-> 0]
    /\ min_capacity = minc
    /\ max_capacity = maxc
    /\ max_lookbehind = lb
    /\ len = lb
    /\ match_offset = lb
    /\ source_offset = -lb

Init ==
    /\ \E minc \in 0..MaxMinCapacity, maxc \in 0..MaxMaxCapacity,
          lb \in 0..MaxMinCapacity : new(minc, maxc, lb)
    /\ input_source \in Sources
    /\ input_pos = 0
    /\ result = "none"
    /\ branch = "none"
    /\ read_ret = 0
    /\ tail_space = 0
    /\ had_ok_read = FALSE
    /\ query = NoQuery
    /\ loop = NoLoop

\* ---- pure accessors ----

\* verify_match with a strict comparison
verify_match_strict(match_begin_with_lookbehind) ==
    IF source_offset >= 0
    THEN TRUE
    ELSE match_begin_with_lookbehind > -source_offset

verify_match(match_begin_with_lookbehind) ==
    IF source_offset >= 0
    THEN TRUE
    ELSE match_begin_with_lookbehind >= -source_offset

get_absolute_offset(p) == p + source_offset

\* buffer[..len]
snapshot_buffer == SubSeq(buffer, 1, len)

\* buffer[match_offset..len]
bytes_to_process == SubSeq(buffer, match_offset + 1, len)

\* ---- helpers of read ----

\* next_cap with the test of the first branch inverted
next_cap_inverted(cap) == IF cap > min_capacity THEN min_capacity ELSE cap * 2

next_cap(cap) == IF cap < min_capacity THEN min_capacity ELSE cap * 2

\* capacity_exceeded comparing the current capacity, not the doubled one
capacity_exceeded_current(cap) ==
    ~(cap < min_capacity) /\ cap > max_capacity

\* capacity_exceeded comparing the target capacity in both branches
capacity_exceeded_target(cap) == next_cap(cap) > max_capacity

\* capacity_exceeded without the min_capacity branch in front of it
capacity_exceeded_no_min(cap) == cap * 2 > max_capacity

\* capacity_exceeded refusing a doubling that lands exactly on max_capacity
capacity_exceeded_inclusive(cap) ==
    ~(cap < min_capacity) /\ cap * 2 >= max_capacity

\* the grow branch returns the error instead of a target capacity
capacity_exceeded(cap) == ~(cap < min_capacity) /\ cap * 2 > max_capacity

\* the early return with the storage already replaced by the doubled one
capacity_exceeded_return_after_alloc ==
    /\ result' = "CapacityExceeded"
    /\ read_ret' = 0
    /\ buffer' = [i \in 1..(Len(buffer) * 2) |->
                     IF i <= len THEN buffer[i] ELSE 0]
    /\ UNCHANGED <<len, input_pos, tail_space, had_ok_read>>

\* lines 107-110: the early return; only line 91 has run before it
capacity_exceeded_return ==
    /\ result' = "CapacityExceeded"
    /\ read_ret' = 0
    /\ UNCHANGED <<buffer, len, input_pos, tail_space, had_ok_read>>

\* new_buffer without the copy_from_slice of line 116
new_buffer_no_copy(buf, n, cap) == [i \in 1..cap |-> 0]

\* vec![0; cap] with buf[0..n] copied to its front
new_buffer(buf, n, cap) == [i \in 1..cap |-> IF i <= n THEN buf[i] ELSE 0]

\* copy_within with the source range starting one byte early
copy_within_one_early(buf, from, to) ==
    [i \in 1..Len(buf) |->
        IF i <= to - from THEN buf[from + i - 1] ELSE buf[i]]

\* copy_within that leaves the bytes where they are
copy_within_no_move(buf, from, to) == buf

\* <[u8]>::copy_within(from..to, 0): 0-based half-open source range
copy_within(buf, from, to) ==
    [i \in 1..Len(buf) |-> IF i <= to - from THEN buf[from + i] ELSE buf[i]]

\* num_bytes_discarded keeping one byte more than the lookbehind
num_bytes_discarded_one_less(mo) == mo - max_lookbehind - 1

\* num_bytes_discarded that discards the lookbehind as well
num_bytes_discarded_whole(mo) == mo

num_bytes_discarded(mo) == mo - max_lookbehind

\* byte counts a std::io::Read may return for a destination of dst_len
\* bytes: 0 only at end of input or for an empty destination, otherwise
\* any count up to what fits and remains (short reads)
read_counts(dst_len) ==
    LET avail == Min(dst_len, Len(input_source) - input_pos)
    IN  IF avail = 0 THEN {0} ELSE 1..avail

\* completion with the comparison inverted
completion_inverted(n) == IF n = 0 THEN "Ok_false" ELSE "Ok_true"

\* completion that never reports the end of the input
completion_never(n) == "Ok_false"

\* Ok(read_ret == 0)
completion(n) == IF n = 0 THEN "Ok_true" ELSE "Ok_false"

\* lines 128-137: hand buf[l..] to the source; add what it returns
fill(buf, l) ==
    /\ tail_space' = Len(buf) - l
    /\ \/ \E n \in read_counts(Len(buf) - l) :
             /\ buffer' = [i \in 1..Len(buf) |->
                             IF l < i /\ i <= l + n
                             THEN input_source[input_pos + (i - l)]
                             ELSE buf[i]]
             /\ len' = l + n
             /\ input_pos' = input_pos + n
             /\ read_ret' = n
             /\ result' = completion(n)
             /\ had_ok_read' = TRUE
       \/ /\ buffer' = buf
          /\ len' = l
          /\ input_pos' = input_pos
          /\ read_ret' = 0
          /\ result' = "SourceIoError"
          /\ had_ok_read' = had_ok_read

\* ---- SubjectBuffer::read ----
read(new_match_offset) ==
    /\ new_match_offset >= match_offset
    /\ new_match_offset <= len
    /\ UNCHANGED <<config, input_source, query>>
    /\ IF new_match_offset <= max_lookbehind
       THEN /\ branch' = "grow"
            /\ match_offset' = new_match_offset
            /\ source_offset' = source_offset
            /\ IF capacity_exceeded(Len(buffer))
               THEN capacity_exceeded_return
               ELSE fill(new_buffer(buffer, len, next_cap(Len(buffer))), len)
       ELSE /\ branch' = "shift"
            /\ match_offset' =
                   new_match_offset - num_bytes_discarded(new_match_offset)
            /\ source_offset' =
                   source_offset + num_bytes_discarded(new_match_offset)
            /\ fill(copy_within(buffer,
                                num_bytes_discarded(new_match_offset), len),
                    len - num_bytes_discarded(new_match_offset))

\* ---- accessor calls (all take &self) ----
verify_match_call(p) ==
    /\ query' = [op |-> "verify_match", arg |-> p,
                 ret |-> IF verify_match(p) THEN 1 ELSE 0]
    /\ UNCHANGED <<config, window, source, outcome, loop>>

get_absolute_offset_call(p) ==
    /\ query' = [op |-> "get_absolute_offset", arg |-> p,
                 ret |-> get_absolute_offset(p)]
    /\ UNCHANGED <<config, window, source, outcome, loop>>

\* some call of read, with any cursor its assertions admit
read_call == \E c \in 0..len : read(c)

Next ==
    \/ read_call /\ UNCHANGED loop
    \/ \E p \in 0..len : verify_match_call(p)
    \/ \E p \in 0..len : get_absolute_offset_call(p)

Spec == Init /\ [][Next]_vars

\* ---- a call of new with any arguments, accepted or not ----

\* the arguments are held in the configuration variables; no window exists
InitNew ==
    /\ min_capacity \in 0..MaxMinCapacity
    /\ max_capacity \in 0..MaxMaxCapacity
    /\ max_lookbehind \in 0..MaxMinCapacity
    /\ buffer = << >>
    /\ len = 0
    /\ match_offset = 0
    /\ source_offset = 0
    /\ input_source = << >>
    /\ input_pos = 0
    /\ result = "new_pending"
    /\ branch = "none"
    /\ read_ret = 0
    /\ tail_space = 0
    /\ had_ok_read = FALSE
    /\ query = NoQuery
    /\ loop = NoLoop

new_call ==
    /\ result = "new_pending"
    /\ UNCHANGED <<source, branch, read_ret, tail_space, had_ok_read, query,
                   loop>>
    /\ \E minc \in {min_capacity}, maxc \in {max_capacity},
          lb \in {max_lookbehind} :
           IF new_accepts(minc, maxc, lb)
           THEN /\ buffer' = [i \in 1..lb |-> 0]
                /\ len' = lb
                /\ match_offset' = lb
                /\ source_offset' = -lb
                /\ UNCHANGED config
                /\ new(minc, maxc, lb)'
                /\ result' = "none"
           ELSE /\ result' = "InvalidConfig"
                /\ UNCHANGED <<config, window>>

SpecNew == InitNew /\ [][new_call]_vars

\* ---- sessions on the steady-state path ----

\* the first read of a session
steady_first_read ==
    result = "none" /\ read(max_lookbehind) /\ UNCHANGED loop

\* a later read, made while no read has returned true, with a cursor
\* > max_lookbehind
steady_later_read ==
    /\ result \notin {"none", "Ok_true"}
    /\ \E c \in (max_lookbehind + 1)..len : read(c)
    /\ UNCHANGED loop

SteadyNext == steady_first_read \/ steady_later_read

SteadySpec == Init /\ [][SteadyNext]_vars

\* ---- the read loop: read until it returns true or fails ----

loop_done == result \in {"Ok_true", "CapacityExceeded"}

\* no loop over a source of at most MaxSourceLen bytes is followed further
MaxLoopCalls == MaxSourceLen + 2

\* one round of the loop, over a source that does not fail
loop_read ==
    /\ ~loop_done
    /\ loop.calls < MaxLoopCalls
    /\ \E c \in 0..len :
           /\ read(c)
           /\ result' # "SourceIoError"
           /\ loop' = [calls |-> loop.calls + 1,
                       at_len |-> loop.at_len /\ (loop.calls = 0 \/ c = len)]

LoopSpec == Init /\ [][loop_read]_vars /\ WF_vars(loop_read)

TypeOK ==
    /\ buffer \in Seq(Byte)
    /\ input_source \in Sources
    /\ min_capacity \in 1..MaxMinCapacity
    /\ max_capacity \in 0..MaxMaxCapacity
    /\ max_lookbehind \in 0..(min_capacity - 1)
    /\ len \in 0..Len(buffer)
    /\ match_offset \in 0..len
    /\ source_offset \in (-max_lookbehind)..Len(input_source)
    /\ input_pos \in 0..Len(input_source)
    /\ result \in {"none", "Ok_true", "Ok_false", "CapacityExceeded",
                   "SourceIoError"}
    /\ branch \in {"none", "grow", "shift"}
    /\ read_ret \in 0..Len(buffer)
    /\ tail_space \in 0..Len(buffer)
    /\ had_ok_read \in BOOLEAN

\* ------------------------------------------------------------------------
\* C1: every window byte is the source byte at its absolute offset, and a
\* window byte whose absolute offset is negative is a zero padding byte.
\* Checked in every reachable state, so also after reads that failed.
C1_WindowMatchesSource ==
    \A i \in 0..(len - 1) :
        IF get_absolute_offset(i) >= 0
        THEN /\ get_absolute_offset(i) < input_pos
             /\ buffer[i + 1] = input_source[get_absolute_offset(i) + 1]
        ELSE buffer[i + 1] = 0

\* a shifted window that still holds padding in front of a non-zero source
\* byte
C1_Witness ==
    /\ branch = "shift"
    /\ result = "Ok_false"
    /\ source_offset < 0
    /\ \E i \in 0..(len - 1) :
           get_absolute_offset(i) >= 0 /\ buffer[i + 1] # 0

\* C2: read returns true iff the fill step added zero bytes; the fill step
\* always has at least one free byte; read never returns true while the
\* source has unread bytes; a false return added at least one source byte
\* to length.
C2_CompletionIffNothingAdded ==
    /\ result \in {"Ok_true", "Ok_false"} =>
           /\ (result = "Ok_true") <=> (read_ret = 0)
           /\ len = (Len(buffer) - tail_space) + read_ret
    /\ result \in {"Ok_true", "Ok_false", "SourceIoError"} => tail_space >= 1
    /\ result = "Ok_true" => input_pos = Len(input_source)
    /\ result = "Ok_false" => read_ret >= 1

\* a read on the shift branch that reports completion, and an earlier read
\* took bytes from the source
C2_Witness ==
    /\ result = "Ok_true"
    /\ branch = "shift"
    /\ input_pos >= 2
    /\ tail_space >= 1

\* C3 (as claimed): a read that fails because the source fails leaves
\* length, capacity, content, match position and source_offset as they were.
C3_SourceFailureKeepsWindow ==
    [][(result' = "SourceIoError" /\ read_call) => UNCHANGED window]_vars

\* C4: a read that fails with CapacityExceeded leaves length, capacity,
\* content, match position and source_offset unchanged and takes nothing
\* from the source; the same call repeated fails in the same way.
C4_CapacityExceededKeepsWindow ==
    [][/\ (result' = "CapacityExceeded" /\ read_call) =>
              UNCHANGED <<window, source>>
       /\ (result = "CapacityExceeded" /\ read(match_offset)) =>
              (result' = "CapacityExceeded" /\ UNCHANGED <<window, source>>)
      ]_vars

\* a CapacityExceeded failure of a window that holds source bytes, with
\* source bytes still unread
C4_Witness ==
    /\ result = "CapacityExceeded"
    /\ len > max_lookbehind
    /\ input_pos < Len(input_source)
    /\ Len(buffer) >= min_capacity
    /\ 2 * Len(buffer) > max_capacity

\* C5 (as claimed): the capacity never exceeds max_capacity.
C5_CapacityAtMostMax == Len(buffer) <= max_capacity

\* C5 (amended): the capacity never exceeds the larger of min_capacity and
\* max_capacity.
C5_CapacityAtMostLargerBound ==
    Len(buffer) <= Max(min_capacity, max_capacity)

\* growth was refused with the capacity exactly at max_capacity
C5_Witness ==
    /\ result = "CapacityExceeded"
    /\ Len(buffer) = max_capacity
    /\ max_capacity > min_capacity

\* C6 (as claimed): with max_capacity < min_capacity the first read, which
\* takes the grow branch, returns CapacityExceeded.
C6_FirstReadFails ==
    [][(max_capacity < min_capacity /\ result = "none" /\ read_call) =>
           (branch' = "grow" /\ result' = "CapacityExceeded")]_vars

\* C6 (amended): with max_capacity < min_capacity the first read takes the
\* grow branch, does not return CapacityExceeded and sets the capacity to
\* min_capacity; every later grow-branch read returns CapacityExceeded.
C6_SecondGrowthFails ==
    [][/\ (max_capacity < min_capacity /\ result = "none" /\ read_call) =>
              /\ branch' = "grow"
              /\ result' # "CapacityExceeded"
              /\ Len(buffer') = min_capacity
       /\ (max_capacity < min_capacity /\ result # "none" /\ read_call
              /\ branch' = "grow") =>
              result' = "CapacityExceeded"
      ]_vars

\* max_capacity < min_capacity, a read has succeeded and a later one
\* returned CapacityExceeded
C6_Witness ==
    /\ max_capacity < min_capacity
    /\ had_ok_read
    /\ result = "CapacityExceeded"
    /\ Len(buffer) = min_capacity

\* C7: max_lookbehind <= stored match position <= length in every state.
C7_LookbehindAvailable ==
    /\ max_lookbehind <= match_offset
    /\ match_offset <= len

\* after a shift with a non-zero lookbehind, with bytes left to process
C7_Witness ==
    /\ branch = "shift"
    /\ result = "Ok_false"
    /\ max_lookbehind >= 1
    /\ Len(bytes_to_process) >= 1

\* C8: verify_match(p) = (get_absolute_offset(p) >= 0) for every p; it is
\* true for every p once source_offset >= 0 and for every p >=
\* max_lookbehind; where it is false for p < length the window byte at p is
\* a padding zero, not source content.
C8_VerifyMatchIsPaddingTest ==
    /\ \A p \in 0..(len + 1) :
           /\ verify_match(p) <=> (get_absolute_offset(p) >= 0)
           /\ source_offset >= 0 => verify_match(p)
           /\ p >= max_lookbehind => verify_match(p)
    /\ source_offset >= -max_lookbehind
    /\ \A p \in 0..(len - 1) :
           ~verify_match(p) =>
               (buffer[p + 1] = 0 /\ get_absolute_offset(p) < 0)

\* verify_match has answered false after a shift dropped part of the padding
C8_Witness ==
    /\ query.op = "verify_match"
    /\ query.ret = 0
    /\ ~verify_match(query.arg)
    /\ query.arg < len
    /\ branch = "shift"
    /\ source_offset < 0
    /\ source_offset > -max_lookbehind

\* C9: source_offset never decreases; a shift-branch read with cursor c adds
\* exactly c - max_lookbehind to it; every other step (grow-branch reads,
\* CapacityExceeded, the accessors) leaves it unchanged.
C9_SourceOffsetMonotonic ==
    [][/\ source_offset' >= source_offset
       /\ source_offset' # source_offset =>
              \E c \in (max_lookbehind + 1)..len :
                  /\ read(c)
                  /\ branch' = "shift"
                  /\ source_offset' = source_offset + (c - max_lookbehind)
       /\ query' = query =>
              \A c \in 0..len :
                  read(c) =>
                      IF c > max_lookbehind
                      THEN /\ branch' = "shift"
                           /\ source_offset' =
                                  source_offset + (c - max_lookbehind)
                      ELSE /\ branch' = "grow"
                           /\ source_offset' = source_offset
       /\ query' # query => source_offset' = source_offset
       /\ result' = "CapacityExceeded" => source_offset' = source_offset
      ]_vars

\* a shift has moved the window past the start of the source
C9_Witness ==
    /\ branch = "shift"
    /\ source_offset >= 1
    /\ max_lookbehind >= 1

\* C10: length <= capacity in every state; the capacity never decreases; a
\* capacity below min_capacity occurs only while no read has succeeded and
\* equals max_lookbehind; after a successful read it is >= min_capacity.
C10_CapacityInvariant ==
    /\ len <= Len(buffer)
    /\ Len(buffer) < min_capacity =>
           (~had_ok_read /\ Len(buffer) = max_lookbehind)
    /\ had_ok_read => Len(buffer) >= min_capacity

C10_Capacity ==
    [][/\ C10_CapacityInvariant
       /\ C10_CapacityInvariant'
       /\ Len(buffer') >= Len(buffer)]_vars

\* the capacity has been doubled past min_capacity and the window is full
C10_Witness ==
    /\ had_ok_read
    /\ Len(buffer) > min_capacity
    /\ len = Len(buffer)

\* C13: before any read the exposed content is max_lookbehind zero bytes,
\* the match position is max_lookbehind, source_offset is -max_lookbehind,
\* get_absolute_offset(0) = -max_lookbehind, and verify_match is false below
\* max_lookbehind and true at max_lookbehind.
C13_InitialWindow ==
    result = "none" =>
        /\ Len(snapshot_buffer) = max_lookbehind
        /\ \A i \in 1..Len(snapshot_buffer) : snapshot_buffer[i] = 0
        /\ match_offset = max_lookbehind
        /\ source_offset = -max_lookbehind
        /\ get_absolute_offset(0) = -max_lookbehind
        /\ \A p \in 0..(max_lookbehind - 1) : ~verify_match(p)
        /\ verify_match(max_lookbehind)

\* no read yet, and verify_match has rejected the last padding position
C13_Witness ==
    /\ result = "none"
    /\ max_lookbehind >= 2
    /\ query.op = "verify_match"
    /\ query.arg = max_lookbehind - 1
    /\ query.ret = 0

\* C14: a successful read with cursor c leaves the match position on the
\* same absolute offset; on the shift branch the new match position is
\* max_lookbehind and the first max_lookbehind window bytes are the bytes
\* [c - max_lookbehind, c) of the window before; on the grow branch it is c.
C14_CursorKeepsLogicalByte ==
    [][query' = query =>
          \A c \in 0..len :
              (read(c) /\ result' \in {"Ok_true", "Ok_false"}) =>
                  /\ match_offset' + source_offset' = c + source_offset
                  /\ IF c > max_lookbehind
                     THEN /\ match_offset' = max_lookbehind
                          /\ \A i \in 1..max_lookbehind :
                                 buffer'[i] = buffer[c - max_lookbehind + i]
                     ELSE match_offset' = c
      ]_vars

\* a successful shift has moved a non-zero source byte into the lookbehind
C14_Witness ==
    /\ branch = "shift"
    /\ result = "Ok_false"
    /\ source_offset >= 0
    /\ \E i \in 1..max_lookbehind : buffer[i] # 0

\* C15: a read with cursor <= max_lookbehind fails with CapacityExceeded iff
\* capacity >= min_capacity and 2 * capacity > max_capacity; otherwise the
\* capacity becomes min_capacity when it was below it, and 2 * capacity
\* when not. So with the cursor held at max_lookbehind the capacities are
\* min_capacity, 2 * min_capacity, ... up to the first whose double exceeds
\* max_capacity.
C15_GrowthRule ==
    [][query' = query =>
          \A c \in 0..Min(len, max_lookbehind) :
              read(c) =>
                  /\ (result' = "CapacityExceeded") <=>
                         (Len(buffer) >= min_capacity
                              /\ 2 * Len(buffer) > max_capacity)
                  /\ result' # "CapacityExceeded" =>
                         Len(buffer') = IF Len(buffer) < min_capacity
                                        THEN min_capacity
                                        ELSE 2 * Len(buffer)
      ]_vars

\* the capacity went min_capacity, 2 * min_capacity, 4 * min_capacity =
\* max_capacity, and the next growth was refused
C15_Witness ==
    /\ result = "CapacityExceeded"
    /\ branch = "grow"
    /\ Len(buffer) = 4 * min_capacity
    /\ Len(buffer) = max_capacity

\* C16: a successful grow-branch read leaves source_offset, the match
\* position and the first len bytes as they were; the capacity grows and
\* the bytes read are appended from index len on.
C16_GrowMovesNothing ==
    [][(branch' = "grow" /\ result' \in {"Ok_true", "Ok_false"}
           /\ read_call) =>
          /\ source_offset' = source_offset
          /\ match_offset' = match_offset
          /\ \A i \in 1..len : buffer'[i] = buffer[i]
          /\ Len(buffer') > Len(buffer)
          /\ len' = len + read_ret'
          /\ \A i \in 1..read_ret' :
                 buffer'[len + i] = input_source[input_pos + i]
      ]_vars

\* a doubling read appended bytes behind non-zero content read earlier
C16_Witness ==
    /\ branch = "grow"
    /\ result = "Ok_false"
    /\ Len(buffer) > min_capacity
    /\ \E i \in (max_lookbehind + 1)..(len - read_ret) : buffer[i] # 0

\* C17: source_offset + len is the number of bytes taken from the source,
\* and source_offset >= -max_lookbehind; when a read with cursor = len
\* returns true, len = max_lookbehind and source_offset is the source's
\* length minus max_lookbehind.
C17_Conservation ==
    /\ source_offset + len = input_pos
    /\ source_offset >= -max_lookbehind

C17_NoByteLost ==
    /\ []C17_Conservation
    /\ [][(result' = "Ok_true" /\ read(len)) =>
             /\ len' = max_lookbehind
             /\ source_offset' = Len(input_source) - max_lookbehind]_vars

\* the whole of a source of two or more bytes has passed through a window
\* that keeps a lookbehind
C17_Witness ==
    /\ result = "Ok_true"
    /\ branch = "shift"
    /\ max_lookbehind >= 1
    /\ Len(input_source) >= 2
    /\ len = max_lookbehind
    /\ source_offset = Len(input_source) - max_lookbehind

\* C11: in a session whose reads after the first all have a cursor >
\* max_lookbehind, the capacity is min_capacity from the first read on and
\* no read returns CapacityExceeded, whatever max_capacity is.
C11_SteadyStateBounded ==
    result # "none" =>
        /\ Len(buffer) = min_capacity
        /\ result # "CapacityExceeded"

\* a source of two bytes or more has been read to its end, one byte at a
\* time, with max_capacity = 0
C11_Witness ==
    /\ result = "Ok_true"
    /\ branch = "shift"
    /\ max_capacity = 0
    /\ Len(input_source) >= 2
    /\ source_offset = Len(input_source) - max_lookbehind
    /\ Len(buffer) = 1

\* C12: new fails iff min_capacity = 0 or min_capacity <= max_lookbehind,
\* whatever max_capacity is; every constructed window has min_capacity >
\* max_lookbehind.
C12_NewFailsIff ==
    /\ result # "new_pending" =>
           (result = "InvalidConfig") <=>
               (min_capacity = 0 \/ min_capacity <= max_lookbehind)
    /\ result = "none" =>
           /\ min_capacity > max_lookbehind
           /\ Len(buffer) = max_lookbehind

\* new has accepted a max_capacity of 0 below min_capacity
C12_Witness ==
    /\ result = "none"
    /\ max_capacity = 0
    /\ min_capacity >= 2
    /\ max_lookbehind >= 1

\* C18: in the read loop over a source that does not fail, a read that
\* returns false takes at least one byte from the source, so at most
\* Len(input_source) + 1 reads are made before one returns true or
\* CapacityExceeded, and one does; when every read after the first has
\* cursor = len the loop ends with true.
C18_LoopInvariant ==
    /\ loop.calls <= input_pos + 1
    /\ loop.calls <= Len(input_source) + 1
    /\ (loop_done /\ loop.at_len) => result = "Ok_true"

C18_ReadLoopTerminates ==
    /\ []C18_LoopInvariant
    /\ [][(result' = "Ok_false" /\ loop_read) =>
             input_pos' >= input_pos + 1]_vars
    /\ <>loop_done

\* the loop has ended with true after one read per source byte and one more
C18_Witness ==
    /\ result = "Ok_true"
    /\ loop.at_len
    /\ Len(input_source) >= 2
    /\ loop.calls = Len(input_source) + 1
====
